---- MODULE Spec2Model ----
(***************************************************************************)
(* Model of turbopack-core's reference classification                      *)
(* (reference_type.rs: ReferenceType::includes, ImportContext) and of the  *)
(* Node.js resolve option builders (resolve/node.rs).                      *)
(***************************************************************************)
EXTENDS Integers, Sequences, FiniteSets, TLC

VARIABLES operand, results, ctx, calls, made, news, cjs_options, esm_options

vars == <<operand, results, ctx, calls, made, news, cjs_options, esm_options>>

\* ------------------------------------------------------------------------
\* Bounds
\* ------------------------------------------------------------------------

\* Custom(u8) payloads range over 0..MaxCustom.
MaxCustom == 1

\* Vc handles (ImportContext, ModulePart, InnerAssets cells) range over 1..MaxVc.
MaxVc == 2

\* Number of ImportContext operations (add_attributes, new) in one run.
MaxOps == 3

\* Root paths handed to the resolve option builders range over 1..MaxRoot.
MaxRoot == 10

\* ------------------------------------------------------------------------
\* ReferenceType values
\* ------------------------------------------------------------------------

\* A ReferenceType value: top-level variant, subtype variant ("NoSub" for the
\* variants without a subtype) and payload (0 when the variant carries none;
\* for AtImport, 0 is None and h >= 1 is Some(handle h)).
RT(kind, sub, arg) == [kind |-> kind, sub |-> sub, arg |-> arg]

CustomPayloads == 0..MaxCustom

VcHandles == 1..MaxVc

CommonJsReferenceSubType ==
    {<<"Custom", n>> : n \in CustomPayloads} \cup {<<"Undefined", 0>>}

EcmaScriptModulesReferenceSubType ==
    {<<"ImportPart", h>> : h \in VcHandles}
    \cup {<<"Import", 0>>, <<"DynamicImport", 0>>}
    \cup {<<"Custom", n>> : n \in CustomPayloads}
    \cup {<<"Undefined", 0>>}

CssReferenceSubType ==
    {<<"AtImport", h>> : h \in {0} \cup VcHandles}
    \cup {<<"Compose", 0>>, <<"Internal", 0>>}
    \cup {<<"Custom", n>> : n \in CustomPayloads}
    \cup {<<"Undefined", 0>>}

UrlReferenceSubType ==
    {<<"EcmaScriptNewUrl", 0>>, <<"CssUrl", 0>>}
    \cup {<<"Custom", n>> : n \in CustomPayloads}
    \cup {<<"Undefined", 0>>}

TypeScriptReferenceSubType ==
    {<<"Custom", n>> : n \in CustomPayloads} \cup {<<"Undefined", 0>>}

EntryReferenceSubType ==
    {<<s, 0>> : s \in {"Web", "Page", "PagesApi", "AppPage", "AppRoute",
                       "AppClientComponent", "Middleware", "Instrumentation",
                       "Runtime"}}
    \cup {<<"Custom", n>> : n \in CustomPayloads}
    \cup {<<"Undefined", 0>>}

SubTypesOf(kind) ==
    CASE kind = "CommonJs" -> CommonJsReferenceSubType
      [] kind = "EcmaScriptModules" -> EcmaScriptModulesReferenceSubType
      [] kind = "Css" -> CssReferenceSubType
      [] kind = "Url" -> UrlReferenceSubType
      [] kind = "TypeScript" -> TypeScriptReferenceSubType
      [] kind = "Entry" -> EntryReferenceSubType

SubTypedKinds ==
    {"CommonJs", "EcmaScriptModules", "Css", "Url", "TypeScript", "Entry"}

ReferenceType ==
    UNION {{RT(k, s[1], s[2]) : s \in SubTypesOf(k)} : k \in SubTypedKinds}
    \cup {RT("Runtime", "NoSub", 0)}
    \cup {RT("Internal", "NoSub", h) : h \in VcHandles}
    \cup {RT("Custom", "NoSub", n) : n \in CustomPayloads}
    \cup {RT("Undefined", "NoSub", 0)}

\* ------------------------------------------------------------------------
\* ReferenceType::includes
\* ------------------------------------------------------------------------

Bool(p) == IF p THEN "true" ELSE "false"

eq_never(self, other) == FALSE

\* Derived structural equality (variant, subtype and payload).
eq(self, other) == self = other

subtype_arm_any_subtype(self, other, kind) == other.kind = kind

subtype_arm_other_wildcard(self, other, kind) ==
    other.kind = kind /\ other.sub = "Undefined"

subtype_arm_any_kind(self, other, kind) == self.sub = "Undefined"

\* The arm shared by the subtyped kinds: other is of the same kind and
\* self's subtype is the kind's Undefined.
subtype_arm(self, other, kind) ==
    other.kind = kind /\ self.sub = "Undefined"

at_import_arm_same_context(self, other) ==
    other.kind = "Css" /\ other.sub = "AtImport" /\ other.arg = self.arg

\* Css(AtImport(_)): any AtImport pair is treated as identical.
at_import_arm(self, other) ==
    other.kind = "Css" /\ other.sub = "AtImport"

custom_arm_false(self, other) == "false"

\* ReferenceType::Custom(_) => todo!(): the call panics.
custom_arm(self, other) == "todo"

includes(self, other) ==
    IF eq(self, other) THEN "true"
    ELSE CASE self.kind = "CommonJs" ->
                Bool(subtype_arm(self, other, "CommonJs"))
           [] self.kind = "EcmaScriptModules" ->
                Bool(subtype_arm(self, other, "EcmaScriptModules"))
           [] self.kind = "Css" /\ self.sub = "AtImport" ->
                Bool(at_import_arm(self, other))
           [] self.kind = "Css" /\ self.sub # "AtImport" ->
                Bool(subtype_arm(self, other, "Css"))
           [] self.kind = "Url" ->
                Bool(subtype_arm(self, other, "Url"))
           [] self.kind = "TypeScript" ->
                Bool(subtype_arm(self, other, "TypeScript"))
           [] self.kind = "Entry" ->
                Bool(subtype_arm(self, other, "Entry"))
           [] self.kind = "Runtime" -> Bool(other.kind = "Runtime")
           [] self.kind = "Internal" -> Bool(other.kind = "Internal")
           [] self.kind = "Custom" -> custom_arm(self, other)
           [] self.kind = "Undefined" -> "true"

\* ------------------------------------------------------------------------
\* ImportContext
\* ------------------------------------------------------------------------

\* Option<Arc<String>>: <<>> is None, <<s>> is Some(s).
Strings == {"a", "b"}

OptStrings == {<<>>} \cup {<<s>> : s \in Strings}

\* Vec::contains
contains(v, x) == \E i \in DOMAIN v : v[i] = x

\* ImportContext::default()
EmptyContext == [layers |-> <<>>, supports |-> <<>>, media |-> <<>>]

ImportContext_new_spec_order(layers, supports, media) ==
    [layers |-> layers, supports |-> supports, media |-> media]

\* ImportContext::new(layers, media, supports)
ImportContext_new(layers, media, supports) ==
    [layers |-> layers, media |-> media, supports |-> supports]

push_always(v, attr) ==
    IF attr = <<>> THEN v ELSE Append(v, attr[1])

\* let mut v = this.v.clone(); if let Some(a) = attr { if !v.contains(&a) { v.push(a) } }; v
push_if_absent(v, attr) ==
    IF attr = <<>> THEN v
    ELSE IF contains(v, attr[1]) THEN v
    ELSE Append(v, attr[1])

\* ImportContext::add_attributes(self, attr_layer, attr_media, attr_supports)
add_attributes(this, attr_layer, attr_media, attr_supports) ==
    LET layers == push_if_absent(this.layers, attr_layer)
        media == push_if_absent(this.media, attr_media)
        supports == push_if_absent(this.supports, attr_supports)
    IN ImportContext_new(layers, media, supports)

\* Sequences handed to ImportContext::new by a direct caller.
NewArgs == {<<>>, <<"a">>, <<"b", "b">>}

\* ------------------------------------------------------------------------
\* Node.js resolve options
\* ------------------------------------------------------------------------

Roots == 1..MaxRoot

\* ResolveOptions::default() restricted to the fields the builders set or
\* that the specification names.
DefaultResolveOptions ==
    [fully_specified |-> FALSE,
     extensions |-> <<>>,
     modules |-> <<>>,
     into_package |-> <<>>,
     in_package |-> <<>>,
     default_files |-> <<>>]

\* ResolutionConditions (a map from condition name to ConditionValue) as
\* its set of entries.
CjsConditions == {<<"node", "Set">>, <<"require", "Set">>}

EsmConditions == {<<"node", "Set">>, <<"import", "Set">>}

NodeExtensions == <<".js", ".json", ".node">>

ResolveModulesNested(root) ==
    << [type |-> "Nested", root |-> root, names |-> <<"node_modules">>] >>

IntoPackage(conditions) ==
    << [type |-> "ExportsField", conditions |-> conditions,
        unspecified_conditions |-> "Unset", field |-> ""],
       [type |-> "MainField", conditions |-> {},
        unspecified_conditions |-> "", field |-> "main"] >>

InPackage(conditions) ==
    << [type |-> "ImportsField", conditions |-> conditions,
        unspecified_conditions |-> "Unset"] >>

node_cjs_resolve_options(root) ==
    [DefaultResolveOptions EXCEPT
        !.extensions = NodeExtensions,
        !.modules = ResolveModulesNested(root),
        !.into_package = IntoPackage(CjsConditions),
        !.in_package = InPackage(CjsConditions),
        !.default_files = <<"index">>]

node_esm_resolve_options_require(root) ==
    [DefaultResolveOptions EXCEPT
        !.fully_specified = TRUE,
        !.extensions = NodeExtensions,
        !.modules = ResolveModulesNested(root),
        !.into_package = IntoPackage(CjsConditions),
        !.in_package = InPackage(CjsConditions),
        !.default_files = <<"index">>]

node_esm_resolve_options(root) ==
    [DefaultResolveOptions EXCEPT
        !.fully_specified = TRUE,
        !.extensions = NodeExtensions,
        !.modules = ResolveModulesNested(root),
        !.into_package = IntoPackage(EsmConditions),
        !.in_package = InPackage(EsmConditions),
        !.default_files = <<"index">>]

\* ------------------------------------------------------------------------
\* State machines
\* ------------------------------------------------------------------------

\* The calls made on the three operands <<a, b, c>>, in order:
\* a.includes(b), b.includes(a), b.includes(c), a.includes(c), a.includes(a).
CallPlan == << <<1, 2>>, <<2, 1>>, <<2, 3>>, <<1, 3>>, <<1, 1>> >>

IdleIncludes == operand = <<>> /\ results = <<>>

IdleContext == ctx = EmptyContext /\ calls = <<>> /\ made = <<>> /\ news = 0

IdleNode == cjs_options = <<>> /\ esm_options = <<>>

\* The last call hit todo!().
Panicked == IF results = <<>> THEN FALSE ELSE results[Len(results)] = "todo"

\* One call self.includes(other); a todo!() panic ends the run.
Includes ==
    /\ Len(results) < Len(CallPlan)
    /\ ~Panicked
    /\ LET call == CallPlan[Len(results) + 1]
           self == operand[call[1]]
           other == operand[call[2]]
       IN results' = Append(results, includes(self, other))
    /\ UNCHANGED <<operand, ctx, calls, made, news, cjs_options, esm_options>>

\* ctx = ctx.add_attributes(attr_layer, attr_media, attr_supports)
AddAttributes ==
    /\ Len(calls) + news < MaxOps
    /\ \E attr_layer \in OptStrings, attr_media \in OptStrings,
          attr_supports \in OptStrings :
          /\ ctx' = add_attributes(ctx, attr_layer, attr_media, attr_supports)
          /\ calls' = Append(calls, <<attr_layer, attr_media, attr_supports>>)
    /\ UNCHANGED <<operand, results, made, news, cjs_options, esm_options>>

\* A direct ImportContext::new(first, second, third) call.
New ==
    /\ Len(calls) + news < MaxOps
    /\ \E first \in NewArgs, second \in NewArgs, third \in NewArgs :
          made' = << [args |-> <<first, second, third>>,
                      result |-> ImportContext_new(first, second, third)] >>
    /\ news' = news + 1
    /\ UNCHANGED <<operand, results, ctx, calls, cjs_options, esm_options>>

NodeCjs ==
    /\ \E root \in Roots :
          cjs_options' = << [root |-> root,
                             options |-> node_cjs_resolve_options(root)] >>
    /\ UNCHANGED <<operand, results, ctx, calls, made, news, esm_options>>

NodeEsm ==
    /\ \E root \in Roots :
          esm_options' = << [root |-> root,
                             options |-> node_esm_resolve_options(root)] >>
    /\ UNCHANGED <<operand, results, ctx, calls, made, news, cjs_options>>

Init ==
    /\ operand \in ReferenceType \X ReferenceType \X ReferenceType
    /\ results = <<>>
    /\ IdleContext
    /\ IdleNode

Next == Includes

Spec == Init /\ [][Next]_vars

InitContext ==
    /\ IdleIncludes
    /\ IdleContext
    /\ IdleNode

NextContext == AddAttributes \/ New

SpecContext == InitContext /\ [][NextContext]_vars

InitNode ==
    /\ IdleIncludes
    /\ IdleContext
    /\ IdleNode

NextNode == NodeCjs \/ NodeEsm

SpecNode == InitNode /\ [][NextNode]_vars

\* ------------------------------------------------------------------------
\* Properties of ReferenceType::includes (checked under Spec)
\* ------------------------------------------------------------------------

Called(k) == Len(results) >= k

Lhs == operand[1]

Rhs == operand[2]

Third == operand[3]

\* a.includes(b), b.includes(a), b.includes(c), a.includes(c), a.includes(a)
LhsIncludesRhs == results[1]

RhsIncludesLhs == results[2]

RhsIncludesThird == results[3]

LhsIncludesThird == results[4]

LhsIncludesLhs == results[5]

SameSubTypedKind(x, y) == x.kind \in SubTypedKinds /\ y.kind = x.kind

IsAtImport(x) == x.kind = "Css" /\ x.sub = "AtImport"

\* C1 as stated: distinct non-Undefined subtypes of one kind, payload-only
\* differences such as AtImport(c1) vs AtImport(c2) included, never include
\* each other.
C1_DistinctSubtypesNeverInclude ==
    (/\ Called(1)
     /\ SameSubTypedKind(Lhs, Rhs)
     /\ Lhs.sub # "Undefined"
     /\ Rhs.sub # "Undefined"
     /\ Lhs # Rhs)
    => LhsIncludesRhs = "false"

\* C1 amended: distinct non-Undefined subtypes S1 # S2 of one kind K never
\* include each other, unless both are AtImport (AtImport(c1) includes
\* AtImport(c2) for any contexts).
C1_DistinctSubtypesNeverIncludeExceptAtImport ==
    (/\ Called(1)
     /\ SameSubTypedKind(Lhs, Rhs)
     /\ Lhs.sub # "Undefined"
     /\ Rhs.sub # "Undefined"
     /\ Lhs # Rhs
     /\ ~(IsAtImport(Lhs) /\ IsAtImport(Rhs)))
    => LhsIncludesRhs = "false"

C1_Witness ==
    /\ Called(1)
    /\ SameSubTypedKind(Lhs, Rhs)
    /\ Lhs.sub = "Custom" /\ Rhs.sub = "Custom" /\ Lhs.arg # Rhs.arg
    /\ LhsIncludesRhs = "false"

\* C2: K(Undefined).includes(K(S)) is true for every subtype S of K, and
\* K(S).includes(K(Undefined)) is true only when S is Undefined.
C2_WildcardSubsumption ==
    (/\ Called(2)
     /\ SameSubTypedKind(Lhs, Rhs)
     /\ Lhs.sub = "Undefined")
    => /\ LhsIncludesRhs = "true"
       /\ RhsIncludesLhs \in {"true", "false"}
       /\ RhsIncludesLhs = "true" => Rhs.sub = "Undefined"

C2_Witness ==
    /\ Called(2)
    /\ SameSubTypedKind(Lhs, Rhs)
    /\ Lhs.sub = "Undefined"
    /\ Rhs.sub = "AtImport"
    /\ LhsIncludesRhs = "true"
    /\ RhsIncludesLhs = "false"

\* C3: includes signals "unsupported" (todo!()) exactly when self is
\* top-level Custom(n) and other is not identical to self; every other call
\* returns true or false.
C3_CustomPanicsExactly ==
    Called(1)
    => /\ LhsIncludesRhs \in {"true", "false", "todo"}
       /\ LhsIncludesRhs = "todo" <=> (Lhs.kind = "Custom" /\ Lhs # Rhs)

C3_Witness ==
    /\ Called(1)
    /\ Lhs.kind = "Custom" /\ Rhs.kind = "Custom" /\ Lhs.arg # Rhs.arg
    /\ LhsIncludesRhs = "todo"

\* C4: a.includes(b) = true only if a and b have the same top-level kind or
\* a is top-level Undefined; and Undefined.includes(x) is true for every x.
C4_SameKindOrUndefined ==
    Called(1)
    => /\ LhsIncludesRhs = "true"
            => (Lhs.kind = Rhs.kind \/ Lhs.kind = "Undefined")
       /\ Lhs.kind = "Undefined" => LhsIncludesRhs = "true"

C4_Witness ==
    /\ Called(1)
    /\ Lhs.kind = "Undefined"
    /\ Rhs.kind = "Custom"
    /\ LhsIncludesRhs = "true"

\* C5: Css(AtImport(c1)).includes(Css(AtImport(c2))) is true for every c1,
\* c2, and Css(AtImport(c)).includes(Css(S)) is false for every S that is
\* not an AtImport.
C5_CoarseAtImport ==
    (Called(1) /\ IsAtImport(Lhs) /\ Rhs.kind = "Css")
    => LhsIncludesRhs = Bool(Rhs.sub = "AtImport")

C5_Witness ==
    /\ Called(1)
    /\ IsAtImport(Lhs) /\ IsAtImport(Rhs)
    /\ Lhs.arg = 0 /\ Rhs.arg # 0
    /\ LhsIncludesRhs = "true"

\* C9 as stated: on values that are not top-level Custom, includes is
\* antisymmetric: a.includes(b) and b.includes(a) imply a = b.
C9_Antisymmetric ==
    (/\ Called(2)
     /\ Lhs.kind # "Custom" /\ Rhs.kind # "Custom"
     /\ LhsIncludesRhs = "true" /\ RhsIncludesLhs = "true")
    => Lhs = Rhs

\* C9 amended: on values that are not top-level Custom, a.includes(b) and
\* b.includes(a) imply a = b, or both are Css(AtImport(_)), or both are
\* Internal(_) (the relation is a preorder, antisymmetric up to the
\* payloads it ignores).
C9_AntisymmetricUpToIgnoredPayload ==
    (/\ Called(2)
     /\ Lhs.kind # "Custom" /\ Rhs.kind # "Custom"
     /\ LhsIncludesRhs = "true" /\ RhsIncludesLhs = "true")
    => \/ Lhs = Rhs
       \/ IsAtImport(Lhs) /\ IsAtImport(Rhs)
       \/ Lhs.kind = "Internal" /\ Rhs.kind = "Internal"

C9_Witness ==
    /\ Called(2)
    /\ Lhs.kind = "Internal" /\ Rhs.kind = "Internal" /\ Lhs # Rhs
    /\ LhsIncludesRhs = "true" /\ RhsIncludesLhs = "true"

\* C10: on values that are not top-level Custom, includes is reflexive
\* (v.includes(v)) and transitive (a.includes(b) and b.includes(c) imply
\* a.includes(c)).
C10_ReflexiveTransitive ==
    (/\ Lhs.kind # "Custom" /\ Rhs.kind # "Custom" /\ Third.kind # "Custom")
    => /\ Called(1) => LhsIncludesRhs \in {"true", "false"}
       /\ Called(3) => RhsIncludesThird \in {"true", "false"}
       /\ Called(4) =>
            ((LhsIncludesRhs = "true" /\ RhsIncludesThird = "true")
                => LhsIncludesThird = "true")
       /\ Called(5) => LhsIncludesLhs = "true"

C10_Witness ==
    /\ Called(5)
    /\ Lhs.kind = "Css" /\ Lhs.sub = "Undefined"
    /\ IsAtImport(Rhs) /\ IsAtImport(Third) /\ Rhs # Third
    /\ LhsIncludesRhs = "true"
    /\ RhsIncludesThird = "true"
    /\ LhsIncludesThird = "true"
    /\ LhsIncludesLhs = "true"

\* ------------------------------------------------------------------------
\* Properties of ImportContext (checked under SpecContext)
\* ------------------------------------------------------------------------

Elems(s) == {s[i] : i \in DOMAIN s}

\* The values supplied at argument position pos over the add_attributes
\* calls so far, in call order.
RECURSIVE Supplied(_, _)
Supplied(cs, pos) ==
    IF cs = <<>> THEN <<>>
    ELSE Supplied(SubSeq(cs, 1, Len(cs) - 1), pos) \o cs[Len(cs)][pos]

FirstIndex(s, x) ==
    CHOOSE i \in DOMAIN s : s[i] = x /\ \A j \in 1..(i - 1) : s[j] # x

\* family lists the distinct values of supplied, in order of first arrival.
IsFirstArrivalList(family, supplied) ==
    /\ \A i, j \in DOMAIN family : i # j => family[i] # family[j]
    /\ Elems(family) = Elems(supplied)
    /\ \A i, j \in DOMAIN family :
          i < j => FirstIndex(supplied, family[i]) < FirstIndex(supplied, family[j])

\* C6: after any sequence of add operations from the empty context, each
\* family is the duplicate-free list of the values supplied for it, in
\* order of first arrival.
C6_FamiliesAreFirstArrivals ==
    /\ IsFirstArrivalList(ctx.layers, Supplied(calls, 1))
    /\ IsFirstArrivalList(ctx.media, Supplied(calls, 2))
    /\ IsFirstArrivalList(ctx.supports, Supplied(calls, 3))

C6_Witness ==
    /\ Supplied(calls, 1) = <<"a", "b", "a">>
    /\ ctx.layers = <<"a", "b">>
    /\ Supplied(calls, 3) = <<"b", "b">>
    /\ ctx.supports = <<"b">>

\* C7 as stated: the second argument of add feeds only supports and the
\* third only media; new stores its second argument as supports and its
\* third as media.
C7_SecondIsSupports ==
    /\ Elems(ctx.supports) = Elems(Supplied(calls, 2))
    /\ Elems(ctx.media) = Elems(Supplied(calls, 3))
    /\ made # <<>> =>
          /\ made[1].result.layers = made[1].args[1]
          /\ made[1].result.supports = made[1].args[2]
          /\ made[1].result.media = made[1].args[3]

\* C7 amended: the positional order is (layer, media, supports): the second
\* argument of add feeds only media and the third only supports; new stores
\* its second argument as media and its third as supports.
C7_SecondIsMedia ==
    /\ Elems(ctx.layers) = Elems(Supplied(calls, 1))
    /\ Elems(ctx.media) = Elems(Supplied(calls, 2))
    /\ Elems(ctx.supports) = Elems(Supplied(calls, 3))
    /\ made # <<>> =>
          /\ made[1].result.layers = made[1].args[1]
          /\ made[1].result.media = made[1].args[2]
          /\ made[1].result.supports = made[1].args[3]

C7_Witness ==
    /\ calls = << <<<<>>, <<"a">>, <<>>>> >>
    /\ ctx.media = <<"a">>
    /\ ctx.supports = <<>>
    /\ made # <<>>
    /\ made[1].args = <<<<>>, <<"a">>, <<"b", "b">>>>
    /\ made[1].result.media = <<"a">>
    /\ made[1].result.supports = <<"b", "b">>

\* ------------------------------------------------------------------------
\* Properties of the Node.js resolve options (checked under SpecNode)
\* ------------------------------------------------------------------------

\* The policy record the two builders are expected to agree on, up to the
\* condition name and fully_specified.
ExpectedNodeOptions(root, condition, fully_specified) ==
    [fully_specified |-> fully_specified,
     extensions |-> <<".js", ".json", ".node">>,
     modules |-> << [type |-> "Nested", root |-> root,
                     names |-> <<"node_modules">>] >>,
     into_package |->
        << [type |-> "ExportsField",
            conditions |-> {<<"node", "Set">>, <<condition, "Set">>},
            unspecified_conditions |-> "Unset", field |-> ""],
           [type |-> "MainField", conditions |-> {},
            unspecified_conditions |-> "", field |-> "main"] >>,
     in_package |->
        << [type |-> "ImportsField",
            conditions |-> {<<"node", "Set">>, <<condition, "Set">>},
            unspecified_conditions |-> "Unset"] >>,
     default_files |-> <<"index">>]

\* C8: for every root the ESM and CJS options agree in every field except
\* the condition set ({node, import} vs {node, require}) and
\* fully_specified (true vs false).
C8_NodeOptionsDifferInTwo ==
    /\ cjs_options # <<>> =>
          cjs_options[1].options =
             ExpectedNodeOptions(cjs_options[1].root, "require", FALSE)
    /\ esm_options # <<>> =>
          esm_options[1].options =
             ExpectedNodeOptions(esm_options[1].root, "import", TRUE)

C8_Witness ==
    /\ cjs_options # <<>>
    /\ esm_options # <<>>
    /\ cjs_options[1].root = esm_options[1].root
    /\ cjs_options[1].options.extensions = esm_options[1].options.extensions
    /\ cjs_options[1].options.modules = esm_options[1].options.modules
    /\ cjs_options[1].options.fully_specified = FALSE
    /\ esm_options[1].options.fully_specified = TRUE

====
